---------------------------- MODULE Spec2Model ----------------------------
(***************************************************************************)
(* State-machine model of the policy bot's RAG service (rag.ts: the        *)
(* SimpleMongoRetriever and RAGService classes) and of its command-line    *)
(* driver (index.ts: main).                                                *)
(*                                                                         *)
(* Asynchronous methods are split at their awaits: each action is one run  *)
(* of synchronous code between two awaits, together with the outcome of    *)
(* the awaited external call (embedding provider, database, generation     *)
(* provider), which either returns or throws.                              *)
(***************************************************************************)
EXTENDS Integers, Sequences, FiniteSets, TLC

(***************************************************************************)
(* Bounds of the model.                                                    *)
(***************************************************************************)
\* Largest argument given to setMaxMemoryTurns.
MaxTurns == 2
\* Number of query calls started in one behaviour.
MaxCalls == 3
\* Number of initializeVectorStore calls started in one behaviour.
MaxInits == 2
\* Number of query calls started in one behaviour of overlapping callers.
MaxOverlap == 2
\* Number of textSearch and vectorSearch calls started in one behaviour.
MaxSearches == 2
\* Largest collection and largest topK of the stand-alone retriever harness.
MaxRows == 3
\* Largest number of pieces of the document given to the splitter harness.
MaxPieces == 4

(***************************************************************************)
(* Program constants.                                                      *)
(***************************************************************************)
\* private maxMemoryTurns = 10
DefaultMaxMemoryTurns == 10
\* new SimpleMongoRetriever(this.collection, embeddings, 6)
ServiceTopK == 6
\* new RecursiveCharacterTextSplitter({ chunkSize: 1000, chunkOverlap: 100 })
ChunkSize == 1000
ChunkOverlap == 100
\* readdirSync(DATASET_DIR).filter(csv).slice(0, 5)
DatasetFileLimit == 5

NotInitializedMsg == "Vector store not initialized."
ChainErrorMsg == "An error occurred while processing your request."

EnvNames == {"GROQ_API_KEY", "MISTRAL_API_KEY", "MONGODB_URI"}

(***************************************************************************)
(* Inputs.                                                                 *)
(***************************************************************************)
Questions == {"q1", "q2"}
Answers == {"a1"}
\* A chunk produced by the loader: its text and its provenance.
Document(text) == [pageContent |-> text, metadata |-> [source |-> "Dataset"]]
DocLists ==
    {<< >>, <<Document("d1"), Document("d2")>>}
\* The embedding provider as a function of the text (mistral-embed): vectors
\* of two dimensions with small integer components.
EmbedText(t) ==
    CASE t = "d1" -> <<1, 0>>
      [] t = "d2" -> <<0, 1>>
      [] t = "q1" -> <<1, 1>>
      [] t = "q2" -> <<0, -1>>
      [] OTHER -> <<0, 0>>

None == "none"

\* String.prototype.toLowerCase on the strings of the model.
ToLowerCase(str) ==
    CASE str = "Exit" -> "exit"
      [] str = "TRUE" -> "true"
      [] str = "False" -> "false"
      [] OTHER -> str

(***************************************************************************)
(* Pure helpers.                                                           *)
(***************************************************************************)
Min(a, b) == IF a < b THEN a ELSE b
Max(a, b) == IF a > b THEN a ELSE b

\* Array.prototype.slice(start): a negative start counts from the end, and
\* -0 is 0, so slice(-0) is the whole array.
JsSliceFrom(seq, start) ==
    LET len == Len(seq)
        from == IF start < 0 THEN Max(len + start, 0) ELSE Min(start, len)
    IN  SubSeq(seq, from + 1, len)

\* Array.prototype.slice(0, end) for end >= 0.
JsSliceTo(seq, end) == SubSeq(seq, 1, Min(end, Len(seq)))

\* Array.prototype.join(sep) on an array of strings.
RECURSIVE Join(_, _)
Join(strs, sep) ==
    IF strs = << >> THEN ""
    ELSE IF Len(strs) = 1 THEN strs[1]
    ELSE strs[1] \o sep \o Join(Tail(strs), sep)

\* The trimming that query and setMaxMemoryTurns apply after each change.
TrimKeepOldest(mem, m) ==
    IF Len(mem) > m * 2 THEN JsSliceTo(mem, m * 2) ELSE mem

TrimMemory(mem, m) ==
    IF Len(mem) > m * 2 THEN JsSliceFrom(mem, -(m * 2)) ELSE mem

Turn(role, content) == [role |-> role, content |-> content]

RenderTurn(t) ==
    IF t.role = "user" THEN "User: " \o t.content ELSE "Assistant: " \o t.content

BuildHistoryWithoutLast(mem, m) ==
    LET items == JsSliceFrom(SubSeq(mem, 1, Len(mem) - 1), -(m * 2))
    IN  Join([i \in 1..Len(items) |-> RenderTurn(items[i])], "\n")

BuildConversationHistory(mem, m) ==
    LET items == JsSliceFrom(mem, -(m * 2))
    IN  Join([i \in 1..Len(items) |-> RenderTurn(items[i])], "\n")


(***************************************************************************)
(* SimpleMongoRetriever.                                                   *)
(***************************************************************************)
Sign(x) == IF x > 0 THEN 1 ELSE IF x < 0 THEN -1 ELSE 0

\* A JavaScript number of the model: an integer, or NaN.
Num(v) == [nan |-> FALSE, val |-> v]
NaN == [nan |-> TRUE, val |-> 0]

\* n / d.  In cosine the dividend is 0 whenever the divisor is (the dot
\* product of a zero vector), and 0 / 0 is NaN.
JsDivide(n, d) == IF d = 0 THEN NaN ELSE Num(n \div d)

\* A stored record has its embedding field.
HasEmbedding(r) == "embedding" \in DOMAIN r

\* The three sums of cosine's loop over i < a.length.
RECURSIVE SumProducts(_, _, _)
SumProducts(a, b, i) ==
    IF i = 0 THEN 0 ELSE a[i] * b[i] + SumProducts(a, b, i - 1)

\* Line 32: if (na === 0 || nb === 0) return 0
NoZeroNormGuard(na, nb) == FALSE

ZeroNorm(na, nb) == na = 0 \/ nb = 0

\* cosine(a, b) = dot / (sqrt(na) * sqrt(nb)), and 0 when a norm is 0.  The
\* model has no square root: it keeps sign(dot) * dot^2 * 4 / (na * nb), the
\* image of the cosine under the increasing map x |-> 4 * sign(x) * x^2, which
\* is an integer for the vectors of the model and orders scores as the cosine
\* does; its divisor na * nb is 0 exactly when sqrt(na) * sqrt(nb) is.
Cosine(a, b) ==
    LET dot == SumProducts(a, b, Len(a))
        na == SumProducts(a, a, Len(a))
        nb == SumProducts(b, b, Len(a))
    IN  IF ZeroNorm(na, nb) THEN Num(0)
        ELSE JsDivide(Sign(dot) * dot * dot * 4, na * nb)

\* cosine(qVec, r.embedding) on a record without the field: b is undefined,
\* and reading b[0] in the loop throws a TypeError.
CosineThrows(a, r) == ~HasEmbedding(r) /\ Len(a) > 0

\* The comparator (a, b) => b.score - a.score; sort takes a NaN result as 0.
ByScoreDescending(a, b) ==
    IF a.score.nan \/ b.score.nan THEN 0 ELSE b.score.val - a.score.val

\* Array.prototype.sort with that comparator: a stable sort by descending
\* score.
RECURSIVE InsertScoredBeforeEqual(_, _)
InsertScoredBeforeEqual(sorted, x) ==
    IF sorted = << >> THEN <<x>>
    ELSE IF ByScoreDescending(Head(sorted), x) < 0
         THEN <<Head(sorted)>> \o InsertScoredBeforeEqual(Tail(sorted), x)
         ELSE <<x>> \o sorted

RECURSIVE InsertScored(_, _)
InsertScored(sorted, x) ==
    IF sorted = << >> THEN <<x>>
    ELSE IF ByScoreDescending(Head(sorted), x) <= 0
         THEN <<Head(sorted)>> \o InsertScored(Tail(sorted), x)
         ELSE <<x>> \o sorted

RECURSIVE SortByScore(_)
SortByScore(scored) ==
    IF scored = << >> THEN << >>
    ELSE InsertScored(SortByScore(SubSeq(scored, 1, Len(scored) - 1)),
                      scored[Len(scored)])

\* rows.map(score).sort(descending).slice(0, topK)
ScoreRows(rows, qVec) ==
    [i \in 1..Len(rows) |->
        [score |-> Cosine(qVec, rows[i].embedding), doc |-> rows[i]]]

\* The map throws when scoring any of the rows throws.
ScoreRowsThrows(rows, qVec) ==
    \E i \in 1..Len(rows) : CosineThrows(qVec, rows[i])

GetRelevantDocuments(rows, qVec, topK) ==
    JsSliceTo(SortByScore(ScoreRows(rows, qVec)), topK)

\* scored.map(s => ({pageContent: s.doc.content, metadata: s.doc.metadata}))
Passages(scored) ==
    [i \in 1..Len(scored) |->
        [pageContent |-> scored[i].doc.content,
         metadata |-> scored[i].doc.metadata]]

\* utils.ts
CombineDocuments(docs) ==
    Join([i \in 1..Len(docs) |-> docs[i].pageContent], "\n\n---\n\n")

(***************************************************************************)
(* The search adapters (textSearch, vectorSearch): flags, requests and the *)
(* search index.                                                           *)
(***************************************************************************)
FlagNames == {"BM25_SEARCH_ENABLED", "VECTOR_SEARCH_ENABLED"}

\* Values of a flag in the environment; "" stands for unset.
FlagValues == {"", "true", "TRUE", "false", "False", "no"}

\* (process.env.X || "true").toLowerCase() === "true"
FlagAlwaysEnabled(v) == TRUE

FlagEnabled(v) == ToLowerCase(IF v = "" THEN "true" ELSE v) = "true"

\* The flag each function reads.
FlagOf(fn) ==
    IF fn = "text" THEN "BM25_SEARCH_ENABLED" ELSE "VECTOR_SEARCH_ENABLED"

DisabledMsg(fn) ==
    IF fn = "text"
    THEN "BM25 text search disabled via BM25_SEARCH_ENABLED=false"
    ELSE "Vector search disabled via VECTOR_SEARCH_ENABLED=false"

\* The optional filter argument: none, or one {path, value}.
Filters ==
    {<< >>} \cup
    {<<[path |-> "metadata.source", value |-> v]>> : v \in {"f1", "f2"}}

\* const textStage = { query, path }
TextStage(c) == [query |-> c.query, path |-> c.path]

\* const knnStage = { path: "embedding", vector: queryVector, k }
KnnStage(c) == [path |-> "embedding", vector |-> c.queryVector, k |-> c.k]

\* { text: textStage } or { knn: knnStage }
MatchClause(c) ==
    IF c.fn = "text" THEN [text |-> TextStage(c)] ELSE [knn |-> KnnStage(c)]

\* if (filter) searchBody = { compound: ... } else searchBody = the clause
SearchBodyIgnoringFilter(c) == MatchClause(c)

SearchBody(c) ==
    IF c.filter # << >>
    THEN [compound |->
            [must |-> <<MatchClause(c)>>,
             filter |-> <<[equals |-> [path |-> c.filter[1].path,
                                       value |-> c.filter[1].value]]>>]]
    ELSE MatchClause(c)

\* { index: name, ...searchBody }
SearchStage(index, body) ==
    [key \in {"index"} \cup DOMAIN body |->
        IF key = "index" THEN index ELSE body[key]]

IndexName(fn) ==
    IF fn = "text" THEN "ClusterMM_bm25_keyword" ELSE "ClusterMM_vector_search"

\* The aggregation pipeline: $search, for textSearch $limit, and $project.
Pipeline(c) ==
    IF c.fn = "text"
    THEN <<[search |-> SearchStage(IndexName(c.fn), SearchBody(c))],
           [limit |-> c.limit],
           [project |-> {"content", "metadata.source", "score"}]>>
    ELSE <<[search |-> SearchStage(IndexName(c.fn), SearchBody(c))],
           [project |-> {"content", "metadata.source", "score"}]>>

\* The documents of the searched collection, and the words the text index
\* holds for each content.
SearchDocs ==
    <<[id |-> <<0, 1>>, content |-> "c1", metadata |-> [source |-> "f1"],
       embedding |-> <<1, 0>>],
      [id |-> <<0, 2>>, content |-> "c2", metadata |-> [source |-> "f2"],
       embedding |-> <<0, 1>>],
      [id |-> <<0, 3>>, content |-> "c3", metadata |-> [source |-> "f1"],
       embedding |-> <<1, 1>>]>>

IndexedWords(content) ==
    CASE content = "c1" -> {"w1"}
      [] content = "c2" -> {"w1", "w2"}
      [] content = "c3" -> {"w2"}
      [] OTHER -> {}

FieldAt(doc, path) ==
    IF path = "metadata.source" THEN doc.metadata.source ELSE doc.content

\* One clause of a $search request holds of a document.
ClauseHolds(clause, doc) ==
    IF "text" \in DOMAIN clause
    THEN clause.text.query \in IndexedWords(FieldAt(doc, clause.text.path))
    ELSE IF "knn" \in DOMAIN clause
    THEN HasEmbedding(doc)
    ELSE FieldAt(doc, clause.equals.path) = clause.equals.value

\* The clauses of a $search stage: those of must and filter of a compound,
\* or the one operator.
ClausesOf(stage) ==
    IF "compound" \in DOMAIN stage
    THEN {stage.compound.must[i] : i \in DOMAIN stage.compound.must}
            \cup {stage.compound.filter[i] : i \in DOMAIN stage.compound.filter}
    ELSE IF "text" \in DOMAIN stage THEN {[text |-> stage.text]}
    ELSE {[knn |-> stage.knn]}

\* The knn clause of a stage, if it has one.
KnnOf(stage) ==
    {cl.knn : cl \in {x \in ClausesOf(stage) : "knn" \in DOMAIN x}}

\* $search as the index answers it: the documents that satisfy every clause;
\* under knn the k of them nearest to the vector, nearest first.
EvalSearch(stage, docs) ==
    LET hits == SelectSeq(docs,
                    LAMBDA d : \A cl \in ClausesOf(stage) : ClauseHolds(cl, d))
    IN  IF KnnOf(stage) = {}
        THEN [i \in 1..Len(hits) |-> [score |-> Num(1), doc |-> hits[i]]]
        ELSE LET knn == CHOOSE x \in KnnOf(stage) : TRUE
             IN  GetRelevantDocuments(hits, knn.vector, knn.k)

\* { $project: { content: 1, "metadata.source": 1, score } }
Project(hits) ==
    [i \in 1..Len(hits) |->
        [content |-> hits[i].doc.content,
         metadata |-> [source |-> hits[i].doc.metadata.source],
         score |-> hits[i].score]]

\* coll.aggregate(pipeline).toArray()
RECURSIVE RunStages(_, _)
RunStages(stages, hits) ==
    IF stages = << >> THEN hits
    ELSE IF "limit" \in DOMAIN Head(stages)
    THEN RunStages(Tail(stages), JsSliceTo(hits, Head(stages).limit))
    ELSE IF "project" \in DOMAIN Head(stages)
    THEN RunStages(Tail(stages), Project(hits))
    ELSE RunStages(Tail(stages), hits)

Aggregate(pipeline, docs) ==
    RunStages(Tail(pipeline), EvalSearch(pipeline[1].search, docs))

\* A call of textSearch or vectorSearch; client is the MongoClient of the
\* call: "none", "created", "connected" or "closed".
IdleSearchCall ==
    [pc |-> "idle", fn |-> None, query |-> "", path |-> "", limit |-> 0,
     queryVector |-> << >>, k |-> 0, filter |-> << >>,
     client |-> "none", request |-> << >>, failed |-> FALSE,
     result |-> << >>, error |-> None]

IdleSearch ==
    [flags |-> [f \in FlagNames |-> ""], open |-> 0, started |-> 0,
     call |-> IdleSearchCall]

(***************************************************************************)
(* loadAndSplitFile: the splitter.  splitDocuments cuts each document at a *)
(* separator into pieces that keep their separator, then merges the pieces *)
(* into chunks.  A document is the sequence of the lengths of its pieces,  *)
(* each shorter than the chunk size; a chunk is the range of pieces it is  *)
(* made of.                                                                *)
(***************************************************************************)
PieceLengths == {50, 100, 450, 900}

\* The length of pieces from..to joined.
RECURSIVE TotalLength(_, _, _)
TotalLength(lens, from, to) ==
    IF from > to THEN 0 ELSE lens[from] + TotalLength(lens, from + 1, to)

\* The loop that drops pieces from the front of the current chunk after a
\* chunk was emitted: while the rest is longer than the overlap, or does not
\* leave room for the next piece.  Returns the first piece kept.
RECURSIVE DropFront(_, _, _, _, _)
DropFront(lens, from, next, size, overlap) ==
    LET total == TotalLength(lens, from, next - 1)
    IN  IF total > overlap \/ (total + lens[next] > size /\ total > 0)
        THEN DropFront(lens, from + 1, next, size, overlap)
        ELSE from

\* The merge: pieces are added to the current chunk while they fit; when the
\* next one does not, the chunk is emitted and its tail kept as the overlap.
RECURSIVE MergeSplits(_, _, _, _, _, _)
MergeSplits(lens, from, next, chunks, size, overlap) ==
    IF next > Len(lens)
    THEN IF from > Len(lens) THEN chunks
         ELSE Append(chunks, [from |-> from, to |-> Len(lens)])
    ELSE IF TotalLength(lens, from, next - 1) + lens[next] > size
              /\ from < next
    THEN MergeSplits(lens, DropFront(lens, from, next, size, overlap),
                     next + 1,
                     Append(chunks, [from |-> from, to |-> next - 1]),
                     size, overlap)
    ELSE MergeSplits(lens, from, next + 1, chunks, size, overlap)

\* splitter.splitDocuments on one document.
SplitDocument(lens) == MergeSplits(lens, 1, 1, << >>, ChunkSize, ChunkOverlap)

IdleSplit == [pieces |-> << >>, done |-> FALSE, chunks |-> << >>]

(***************************************************************************)
(* createVectorIndexesFromDataset: file names, collection names, records.  *)
(* A file name is its base name, a sequence of characters, and its         *)
(* extension; a file is its name and its parsed rows, each row the text    *)
(* of its cells joined and trimmed ("" for a row with nothing in it).      *)
(***************************************************************************)
FileName(base, ext) == [base |-> base, ext |-> ext]
DatasetFile(base, ext, rows) == [name |-> FileName(base, ext), rows |-> rows]

\* The characters [a-z0-9_] matches with the i flag, among those of the
\* model's file names.
WordChars == {"a", "b", "f", "A", "1", "2", "3", "4", "5", "6", "_"}

\* toLowerCase on one character.
LowerCaseChar(c) == IF c = "A" THEN "a" ELSE c

\* name.replace(/[^a-z0-9_]/gi, "_").toLowerCase()
SanitizeName(name) ==
    [i \in DOMAIN name |->
        LowerCaseChar(IF name[i] \in WordChars THEN name[i] ELSE "_")]

\* `${baseCollection}_${sanitizeName(path.basename(file, path.extname(file)))}`
\* with the default base collection.
CollName(name) == <<"vectors_">> \o SanitizeName(name.base)

\* /\.csv$/i.test(f)
IsCsv(name) == name.ext \in {"csv", "CSV"}

\* readdirSync(DATASET_DIR).filter(csv).slice(0, 5)
SelectedFiles(listing) ==
    LET csv == SelectSeq(listing, LAMBDA f : IsCsv(f.name))
    IN  SubSeq(csv, 1, Min(Len(csv), DatasetFileLimit))

\* records.map((r) => r.join(" ").trim()).filter(Boolean)
NonEmptyTexts(rows) == SelectSeq(rows, LAMBDA t : t # "")

\* The records with row numbers counted from one.
IndexDocsRowsFromOne(texts, name, vectors) ==
    [i \in 1..Len(texts) |->
        IF i \in DOMAIN vectors
        THEN [coll |-> CollName(name), content |-> texts[i],
              metadata |-> [source |-> name, row |-> i],
              embedding |-> vectors[i]]
        ELSE [coll |-> CollName(name), content |-> texts[i],
              metadata |-> [source |-> name, row |-> i]]]

\* texts.map((t, i) => ({content: t, metadata: {source: file, row: i},
\* embedding: vectors[i]})), each record with the collection it goes to.
IndexDocs(texts, name, vectors) ==
    [i \in 1..Len(texts) |->
        IF i \in DOMAIN vectors
        THEN [coll |-> CollName(name), content |-> texts[i],
              metadata |-> [source |-> name, row |-> i - 1],
              embedding |-> vectors[i]]
        ELSE [coll |-> CollName(name), content |-> texts[i],
              metadata |-> [source |-> name, row |-> i - 1]]]

\* The directory listings of the model: an empty directory; two files whose
\* names differ in one character; a file of blank rows, a file that is not
\* a CSV and a file with a blank first row; more files than are taken.
Listings ==
    { << >>,
      <<DatasetFile(<<"a", "-", "b">>, "csv", <<"r1", "", "r2">>),
        DatasetFile(<<"a", "_", "b">>, "csv", <<"r3">>)>>,
      <<DatasetFile(<<"A">>, "CSV", <<"", "">>),
        DatasetFile(<<"b">>, "txt", <<"t1">>),
        DatasetFile(<<"b">>, "csv", <<"", "r1", "r2">>)>>,
      <<DatasetFile(<<"f", "1">>, "csv", <<"r1">>),
        DatasetFile(<<"f", "2">>, "csv", <<"r1">>),
        DatasetFile(<<"f", "3">>, "csv", <<"r1">>),
        DatasetFile(<<"f", "4">>, "csv", <<"r1">>),
        DatasetFile(<<"f", "5">>, "csv", <<"r1">>),
        DatasetFile(<<"f", "6">>, "csv", <<"r1">>)>> }

\* A record left in a collection by an earlier run.
StaleRecord ==
    [coll |-> CollName(FileName(<<"b">>, "csv")), content |-> "old",
     metadata |-> [source |-> FileName(<<"b">>, "csv"), row |-> 0],
     embedding |-> <<0, 0>>]

\* The run: files is the selection of line 71, i the file being processed,
\* store the records of the database's collections in stored order, open the
\* connections of the run that are connected and not closed.  inserted is
\* history: the files whose records were inserted, in order.
IdleIndex ==
    [pc |-> "idle", listing |-> << >>, files |-> << >>, i |-> 0,
     texts |-> << >>, vectors |-> << >>, store |-> << >>, open |-> 0,
     atlas |-> FALSE, inserted |-> << >>, exitCode |-> 0]

(***************************************************************************)
(* State.                                                                  *)
(***************************************************************************)
VARIABLES
    env,             \* names of the environment variables that are set
    retriever,       \* RAGService.retriever: absent, or the installed one
    chain,           \* RAGService.chain is built
    memory,          \* RAGService.memory
    maxMemoryTurns,  \* RAGService.maxMemoryTurns
    openClients,     \* MongoClients connected by this process and not closed
    collection,      \* the records of the MongoDB collection, in stored order
    ingest,          \* the initializeVectorStore call in flight
    call,            \* the query calls in flight, by slot
    appended,        \* history: turns appended since the memory was last reset
    nCalls,          \* history: query calls started
    nInits,          \* history: initializeVectorStore calls started
    chainLog,        \* history: the retriever in place at each chain construction
    mainPc,          \* position of index.ts main ("off" without the CLI)
    rank,            \* the stand-alone SimpleMongoRetriever harness
    search,          \* the search adapters: flags, connections, call in flight
    split,           \* the stand-alone text splitter harness
    index            \* the createVectorIndexesFromDataset run

serviceVars == <<retriever, chain, memory, maxMemoryTurns, appended, chainLog>>
storeVars == <<openClients, collection>>
vars == <<env, retriever, chain, memory, maxMemoryTurns, openClients,
          collection, ingest, call, appended, nCalls, nInits, chainLog,
          mainPc, rank, search, split, index>>

Slots == {1, 2}

NoRetriever == [installed |-> FALSE, batch |-> 0, topK |-> 0]

IdleCall ==
    [pc |-> "idle", question |-> None,
     retrieved |-> FALSE, scanned |-> << >>, context |-> "",
     rendered |-> FALSE, history |-> "",
     effects |-> {}, fault |-> None, result |-> None, threw |-> FALSE,
     via |-> 0]

\* previous is history: the collection as the call found it.
IdleIngest ==
    [pc |-> "idle", docs |-> << >>, batch |-> 0, vectors |-> << >>,
     previous |-> << >>]

IdleRank == [rows |-> << >>, topK |-> 0, qVec |-> <<0, 0>>, done |-> FALSE,
             threw |-> FALSE, out |-> << >>]

\* No call on the service is in flight.
Quiet == ingest.pc = "idle" /\ \A s \in Slots : call[s].pc = "idle"

\* A RAGService as constructed, and the collection before any ingestion.
InitService ==
    /\ retriever = NoRetriever
    /\ chain = FALSE
    /\ memory = << >>
    /\ maxMemoryTurns = DefaultMaxMemoryTurns
    /\ openClients = 0
    /\ collection = << >>
    /\ ingest = IdleIngest
    /\ call = [s \in Slots |-> IdleCall]
    /\ appended = << >>
    /\ nCalls = 0
    /\ nInits = 0
    /\ chainLog = << >>

Init ==
    /\ env \in SUBSET EnvNames
    /\ InitService
    /\ mainPc = "off"
    /\ rank = IdleRank
    /\ search = IdleSearch
    /\ split = IdleSplit
    /\ index = IdleIndex

(***************************************************************************)
(* RAGService.query.                                                       *)
(***************************************************************************)
\* Line 144: if (!this.retriever) return "Vector store not initialized."
NeverNotInitialized(r) == FALSE

NotInitialized(r) == ~r.installed

\* Lines 170-175: the user's turn is pushed, then the memory is trimmed.
UserTurnNotRecorded(mem, q, m) == mem

PushUserTurn(mem, q, m) == TrimMemory(Append(mem, Turn("user", q)), m)

\* Lines 183-186: the assistant's reply is pushed, then the memory is trimmed.
PushAssistantTurn(mem, a, m) ==
    TrimMemory(Append(mem, Turn("assistant", a)), m)

\* Lines 189-192: the catch logs the error and returns the fixed message.
ChainFailureRethrown(c, fault, effects) ==
    [c EXCEPT !.pc = "returned", !.fault = fault, !.effects = @ \cup effects,
              !.threw = TRUE]

ChainFailure(c, fault, effects) ==
    [c EXCEPT !.pc = "returned", !.fault = fault, !.effects = @ \cup effects,
              !.result = ChainErrorMsg]

\* Line 146: if (!this.chain) the chain is constructed.
ChainMissing(c) == ~c

\* Line 151: the chain's context step reads this.retriever when it runs; log
\* holds the retriever that was in place when the chain was constructed.
RetrieverAtConstruction(current, log) == [current EXCEPT !.batch = log[1]]

ChainRetriever(current, log) == current

\* Lines 143-177: the guard, the lazy construction of the chain, the user's
\* turn pushed and trimmed, up to the await of chain.invoke.
QueryCall(s, q) ==
    /\ call[s].pc = "idle"
    /\ nCalls < MaxCalls
    /\ nCalls' = nCalls + 1
    /\ IF NotInitialized(retriever)
       THEN /\ call' = [call EXCEPT ![s] =
                   [IdleCall EXCEPT !.pc = "returned", !.question = q,
                                    !.result = NotInitializedMsg]]
            /\ UNCHANGED serviceVars
       ELSE /\ chain' = TRUE
            /\ chainLog' = IF ChainMissing(chain)
                           THEN Append(chainLog, retriever.batch)
                           ELSE chainLog
            /\ memory' = PushUserTurn(memory, q, maxMemoryTurns)
            /\ appended' = Append(appended, Turn("user", q))
            /\ call' = [call EXCEPT ![s] =
                   [IdleCall EXCEPT !.pc = "invoked", !.question = q]]
            /\ UNCHANGED <<retriever, maxMemoryTurns>>
    /\ UNCHANGED <<env, storeVars, ingest, nInits>>

\* The chain's context step: _getRelevantDocuments(question) embeds the
\* question, scans the collection, ranks, and combineDocuments joins the
\* passages.  Either await may throw, and so does the scoring of a record
\* without embedding; each fails chain.invoke: query's catch returns the fixed
\* message.
QueryRetrieve(s) ==
    /\ call[s].pc = "invoked"
    /\ ~call[s].retrieved
    /\ \/ /\ ~ScoreRowsThrows(collection, EmbedText(call[s].question))
          /\ call' = [call EXCEPT ![s] =
              [@ EXCEPT !.retrieved = TRUE,
                        !.via = ChainRetriever(retriever, chainLog).batch,
                        !.scanned = collection,
                        !.context = CombineDocuments(Passages(
                            GetRelevantDocuments(collection,
                                EmbedText(call[s].question),
                                ChainRetriever(retriever, chainLog).topK))),
                        !.effects = @ \cup {"embed", "find"}]]
       \/ /\ ScoreRowsThrows(collection, EmbedText(call[s].question))
          /\ call' = [call EXCEPT ![s] =
              [ChainFailure(@, "cosine", {"embed", "find"})
                  EXCEPT !.scanned = collection]]
       \/ call' = [call EXCEPT ![s] = ChainFailure(@, "embed", {"embed"})]
       \/ call' = [call EXCEPT ![s] =
              ChainFailure(@, "find", {"embed", "find"})]
    /\ UNCHANGED <<env, serviceVars, storeVars, ingest, nCalls, nInits>>

\* The chain's conversation_history step.
QueryHistory(s) ==
    /\ call[s].pc = "invoked"
    /\ ~call[s].rendered
    /\ call' = [call EXCEPT ![s] =
           [@ EXCEPT !.rendered = TRUE,
                     !.history = BuildConversationHistory(memory,
                                                          maxMemoryTurns)]]
    /\ UNCHANGED <<env, serviceVars, storeVars, ingest, nCalls, nInits>>

\* The prompt, the model and the parser, then lines 180-188: the assistant's
\* turn pushed and trimmed, and the answer returned; or the provider throws
\* and query's catch returns the fixed message (lines 189-192).
QueryGenerate(s) ==
    /\ call[s].pc = "invoked"
    /\ call[s].retrieved
    /\ call[s].rendered
    /\ \/ \E a \in Answers :
            /\ memory' = PushAssistantTurn(memory, a, maxMemoryTurns)
            /\ appended' = Append(appended, Turn("assistant", a))
            /\ call' = [call EXCEPT ![s] =
                   [@ EXCEPT !.pc = "returned",
                             !.effects = @ \cup {"generate"},
                             !.result = a]]
       \/ /\ call' = [call EXCEPT ![s] =
                 ChainFailure(@, "generate", {"generate"})]
          /\ UNCHANGED <<memory, appended>>
    /\ UNCHANGED <<env, retriever, chain, chainLog, maxMemoryTurns, storeVars,
                   ingest, nCalls, nInits>>

\* The caller resumes with the result.
QueryReturn(s) ==
    /\ call[s].pc = "returned"
    /\ call' = [call EXCEPT ![s] = IdleCall]
    /\ UNCHANGED <<env, serviceVars, storeVars, ingest, nCalls, nInits>>

(***************************************************************************)
(* RAGService: the memory helpers.                                         *)
(***************************************************************************)
ClearMemory ==
    /\ memory' = << >>
    /\ appended' = << >>
    /\ UNCHANGED <<env, retriever, chain, chainLog, maxMemoryTurns, storeVars,
                   ingest, call, nCalls, nInits>>

SetMaxMemoryTurns(n) ==
    /\ maxMemoryTurns' = n
    /\ memory' = TrimMemory(memory, n)
    /\ appended' = memory'
    /\ UNCHANGED <<env, retriever, chain, chainLog, storeVars, ingest, call,
                   nCalls, nInits>>

(***************************************************************************)
(* RAGService.initializeVectorStore.                                       *)
(***************************************************************************)
\* docs.map((d, i) => ({content, metadata, embedding: vectors[i]})); id is
\* the _id the insert gives the record: the ingestion and the position.
\* vectors[i] past the end of vectors is undefined: the record is stored
\* without an embedding.
Inserts(docs, vectors, batch) ==
    [i \in 1..Len(docs) |->
        IF i \in DOMAIN vectors
        THEN [id |-> <<batch, i>>,
              content |-> docs[i].pageContent,
              metadata |-> docs[i].metadata,
              embedding |-> vectors[i]]
        ELSE [id |-> <<batch, i>>,
              content |-> docs[i].pageContent,
              metadata |-> docs[i].metadata]]

\* embedDocuments(texts) answering with one vector per text, in order.
EmbedDocuments(texts) == [i \in 1..Len(texts) |-> EmbedText(texts[i])]

\* What one embedDocuments call may answer: one vector per text, or a
\* response that is one vector short, or one vector long.
BatchResponses(texts) ==
    {EmbedDocuments(texts), Append(EmbedDocuments(texts), <<0, 0>>)}
        \cup (IF texts = << >> THEN {}
              ELSE {SubSeq(EmbedDocuments(texts), 1, Len(texts) - 1)})

\* Line 119: MistralAIEmbeddings exposes embedDocuments.
ProviderHasEmbedDocuments == TRUE

\* Lines 123-130, the fallback: vectors.push(await embedQuery(t)) for each
\* text in order.
RECURSIVE EmbedSequentially(_)
EmbedSequentially(texts) ==
    IF texts = << >> THEN << >>
    ELSE Append(EmbedSequentially(SubSeq(texts, 1, Len(texts) - 1)),
                EmbedText(texts[Len(texts)]))

\* const texts = docs.map((d) => d.pageContent)
Texts(docs) == [i \in 1..Len(docs) |-> docs[i].pageContent]

\* Lines 94-107: the key check, the client and the await of connect.  A
\* missing key throws; so does the MongoClient constructor without a
\* connection string, and so may connect.
InitCall(docs) ==
    /\ ingest.pc = "idle"
    /\ nInits < MaxInits
    /\ nInits' = nInits + 1
    /\ IF "MISTRAL_API_KEY" \notin env \/ "MONGODB_URI" \notin env
       THEN /\ ingest' = [IdleIngest EXCEPT !.pc = "threw", !.docs = docs,
                                            !.batch = nInits + 1]
            /\ UNCHANGED openClients
       ELSE \/ /\ ingest' = [IdleIngest EXCEPT !.pc = "connected",
                                 !.docs = docs, !.batch = nInits + 1,
                                 !.previous = collection]
               /\ openClients' = openClients + 1
            \/ /\ ingest' = [IdleIngest EXCEPT !.pc = "threw", !.docs = docs,
                                               !.batch = nInits + 1]
               /\ UNCHANGED openClients
    /\ UNCHANGED <<env, serviceVars, collection, call, nCalls>>

\* Lines 109-114: deleteMany({}); a failure is caught and only logged.
InitClear ==
    /\ ingest.pc = "connected"
    /\ ingest' = [ingest EXCEPT !.pc = "cleared"]
    /\ \/ collection' = << >>
       \/ UNCHANGED collection
    /\ UNCHANGED <<env, serviceVars, openClients, call, nCalls, nInits>>

\* Lines 116-131: the texts are embedded, in one embedDocuments call when the
\* provider has the method and one by one otherwise; the provider may throw.
InitEmbed ==
    /\ ingest.pc = "cleared"
    /\ \/ \E vectors \in (IF ProviderHasEmbedDocuments
                          THEN BatchResponses(Texts(ingest.docs))
                          ELSE {EmbedSequentially(Texts(ingest.docs))}) :
              ingest' = [ingest EXCEPT !.pc = "embedded", !.vectors = vectors]
       \/ ingest' = [ingest EXCEPT !.pc = "threw"]
    /\ UNCHANGED <<env, serviceVars, storeVars, call, nCalls, nInits>>

\* Lines 133-140: insertMany when there is something to insert, which may
\* throw, then the retriever is installed.
InitInsert ==
    /\ ingest.pc = "embedded"
    /\ \/ /\ collection' = collection \o
                  Inserts(ingest.docs, ingest.vectors, ingest.batch)
          /\ retriever' = [installed |-> TRUE, batch |-> ingest.batch,
                           topK |-> ServiceTopK]
          /\ ingest' = [ingest EXCEPT !.pc = "returned"]
       \/ /\ Len(ingest.docs) > 0
          /\ ingest' = [ingest EXCEPT !.pc = "threw"]
          /\ UNCHANGED <<collection, retriever>>
    /\ UNCHANGED <<env, chain, chainLog, memory, maxMemoryTurns, appended,
                   openClients, call, nCalls, nInits>>

\* The caller resumes, with the result or the exception.
InitReturn ==
    /\ ingest.pc \in {"returned", "threw"}
    /\ ingest' = IdleIngest
    /\ UNCHANGED <<env, serviceVars, storeVars, call, nCalls, nInits>>

(***************************************************************************)
(* A client that calls the service's public methods one at a time, each    *)
(* awaited before the next.                                                *)
(***************************************************************************)
\* What the service's methods never touch.
driverVars == <<mainPc, rank, search, split, index>>

ClientQuery ==
    \E q \in Questions : Quiet /\ QueryCall(1, q) /\ UNCHANGED driverVars
ClientClearMemory == Quiet /\ ClearMemory /\ UNCHANGED driverVars
ClientSetMaxMemoryTurns ==
    \E n \in 0..MaxTurns :
        Quiet /\ SetMaxMemoryTurns(n) /\ UNCHANGED driverVars
ClientInitialize ==
    \E docs \in DocLists : Quiet /\ InitCall(docs) /\ UNCHANGED driverVars
ClientResume == QueryReturn(1) /\ UNCHANGED driverVars
ClientInitResume == InitReturn /\ UNCHANGED driverVars

RetrieveStep == QueryRetrieve(1) /\ UNCHANGED driverVars
HistoryStep == QueryHistory(1) /\ UNCHANGED driverVars
GenerateStep == QueryGenerate(1) /\ UNCHANGED driverVars
ClearStep == InitClear /\ UNCHANGED driverVars
EmbedStep == InitEmbed /\ UNCHANGED driverVars
InsertStep == InitInsert /\ UNCHANGED driverVars

Next ==
    \/ ClientQuery
    \/ RetrieveStep
    \/ HistoryStep
    \/ GenerateStep
    \/ ClientResume
    \/ ClientClearMemory
    \/ ClientSetMaxMemoryTurns
    \/ ClientInitialize
    \/ ClearStep
    \/ EmbedStep
    \/ InsertStep
    \/ ClientInitResume

Spec == Init /\ [][Next]_vars

(***************************************************************************)
(* index.ts main: the command-line driver.                                 *)
(***************************************************************************)
InitCli ==
    /\ env \in SUBSET EnvNames
    /\ InitService
    /\ mainPc = "start"
    /\ rank = IdleRank
    /\ search = IdleSearch
    /\ split = IdleSplit
    /\ index = IdleIndex

\* What the user may type at the prompt.
Inputs == Questions \cup {"exit", "Exit"}


\* Lines 19-42: each of the three variables is set.
EnvUnchecked(e) == TRUE

EnvComplete(e) ==
    /\ "GROQ_API_KEY" \in e
    /\ "MISTRAL_API_KEY" \in e
    /\ "MONGODB_URI" \in e

\* Lines 19-47: the three environment checks, then new RAGService().
MainCheckEnv ==
    /\ mainPc = "start"
    /\ mainPc' = IF EnvComplete(env) THEN "load" ELSE "aborted"
    /\ UNCHANGED <<env, serviceVars, storeVars, ingest, call, nCalls, nInits,
                   rank, search, split, index>>

\* Lines 49-58: loadAndSplitFile returns the chunks, and initializeVectorStore
\* is called with them; or loading throws and main returns from its catch.
MainLoad ==
    /\ mainPc = "load"
    /\ \/ \E docs \in DocLists :
            /\ InitCall(docs)
            /\ mainPc' = "init"
       \/ /\ mainPc' = "aborted"
          /\ UNCHANGED <<env, serviceVars, storeVars, ingest, call, nCalls,
                         nInits>>
    /\ UNCHANGED <<rank, search, split, index>>

\* Lines 58-70: main resumes after initializeVectorStore: it returns from its
\* catch when the call threw, and otherwise creates the readline interface.
MainInitResume ==
    /\ mainPc = "init"
    /\ InitReturn
    /\ mainPc' = IF ingest.pc = "threw" THEN "aborted" ELSE "prompt"
    /\ UNCHANGED <<rank, search, split, index>>

\* Lines 72-85: a line is read; "exit" in any case closes the interface and
\* leaves the loop, anything else is passed to query.
MainAsk ==
    /\ mainPc = "prompt"
    /\ \E input \in Inputs :
          IF ToLowerCase(input) = "exit"
          THEN /\ mainPc' = "closed"
               /\ UNCHANGED <<env, serviceVars, storeVars, ingest, call,
                              nCalls, nInits>>
          ELSE /\ QueryCall(1, input)
               /\ mainPc' = "query"
    /\ UNCHANGED <<rank, search, split, index>>

\* Lines 85-94: the answer is printed, or the exception is logged by the
\* catch; either way the loop goes on to the next prompt.
MainPrint ==
    /\ mainPc = "query"
    /\ QueryReturn(1)
    /\ mainPc' = "prompt"
    /\ UNCHANGED <<rank, search, split, index>>

NextCli ==
    \/ MainCheckEnv
    \/ MainLoad
    \/ ClearStep
    \/ EmbedStep
    \/ InsertStep
    \/ MainInitResume
    \/ MainAsk
    \/ RetrieveStep
    \/ HistoryStep
    \/ GenerateStep
    \/ MainPrint

SpecCli == InitCli /\ [][NextCli]_vars

(***************************************************************************)
(* Callers that do not await one call before making the next: queries and  *)
(* an ingestion overlap at their awaits.  The memory limit keeps its       *)
(* default.  Slots are interchangeable, so a query takes the lowest idle   *)
(* one.                                                                    *)
(***************************************************************************)
LowestIdle(s) ==
    /\ call[s].pc = "idle"
    /\ \A t \in Slots : t < s => call[t].pc # "idle"

AnyQuery ==
    \E s \in Slots, q \in Questions :
        /\ nCalls < MaxOverlap
        /\ LowestIdle(s)
        /\ QueryCall(s, q)
        /\ UNCHANGED driverVars
AnyRetrieve == \E s \in Slots : QueryRetrieve(s) /\ UNCHANGED driverVars
AnyHistory == \E s \in Slots : QueryHistory(s) /\ UNCHANGED driverVars
AnyGenerate == \E s \in Slots : QueryGenerate(s) /\ UNCHANGED driverVars
AnyResume == \E s \in Slots : QueryReturn(s) /\ UNCHANGED driverVars
AnyInitialize == \E docs \in DocLists : InitCall(docs) /\ UNCHANGED driverVars

NextConcurrent ==
    \/ AnyQuery
    \/ AnyRetrieve
    \/ AnyHistory
    \/ AnyGenerate
    \/ AnyResume
    \/ AnyInitialize
    \/ ClearStep
    \/ EmbedStep
    \/ InsertStep
    \/ ClientInitResume

SpecConcurrent == Init /\ [][NextConcurrent]_vars

(***************************************************************************)
(* A SimpleMongoRetriever on its own: any collection of records, with or   *)
(* without embedding, any topK >= 1, any query vector; one retrieval.      *)
(***************************************************************************)
RankVectors == {<<1, 0>>, <<0, 1>>, <<1, 1>>, <<-1, 0>>, <<0, 0>>}

\* The embedding field of a record: no vector, or one.
RankEmbeddings == {<< >>} \cup {<<v>> : v \in RankVectors}

\* The collections of n records, in stored order.
RankRows(n) ==
    {[i \in 1..n |->
         IF e[i] = << >>
         THEN [id |-> <<0, i>>, content |-> c[i],
               metadata |-> [source |-> "Dataset"]]
         ELSE [id |-> <<0, i>>, content |-> c[i],
               metadata |-> [source |-> "Dataset"], embedding |-> e[i][1]]] :
       c \in [1..n -> {"d1", "d2"}], e \in [1..n -> RankEmbeddings]}

InitRank ==
    /\ env = EnvNames
    /\ InitService
    /\ mainPc = "off"
    /\ search = IdleSearch
    /\ split = IdleSplit
    /\ index = IdleIndex
    /\ \E n \in 0..MaxRows, k \in 1..MaxRows, q \in RankVectors :
          \E rows \in RankRows(n) :
              rank = [rows |-> rows, topK |-> k, qVec |-> q, done |-> FALSE,
                      threw |-> FALSE, out |-> << >>]

\* Lines 49-56 on the harness: the rows are scored, sorted and sliced, or
\* the scoring throws.
RankRetrieve ==
    /\ ~rank.done
    /\ rank' = IF ScoreRowsThrows(rank.rows, rank.qVec)
               THEN [rank EXCEPT !.done = TRUE, !.threw = TRUE]
               ELSE [rank EXCEPT
                       !.done = TRUE,
                       !.out = GetRelevantDocuments(rank.rows, rank.qVec,
                                                    rank.topK)]
    /\ UNCHANGED <<env, serviceVars, storeVars, ingest, call, nCalls, nInits,
                   mainPc, search, split, index>>

NextRank == RankRetrieve

SpecRank == InitRank /\ [][NextRank]_vars

(***************************************************************************)
(* textSearch and vectorSearch: calls made one at a time, with the flags   *)
(* of the environment changing at any moment.                              *)
(***************************************************************************)
searchFrame ==
    <<env, serviceVars, storeVars, ingest, call, nCalls, nInits, mainPc, rank,
      split, index>>

\* Lines 12-21 of either function: the flag is read and checked, then the
\* client is created and connect is awaited.
SearchCall(c) ==
    /\ search.call.pc = "idle"
    /\ search.started < MaxSearches
    /\ search' = [search EXCEPT
           !.started = @ + 1,
           !.call = IF ~FlagEnabled(search.flags[FlagOf(c.fn)])
                    THEN [c EXCEPT !.pc = "threw", !.error = DisabledMsg(c.fn)]
                    ELSE [c EXCEPT !.pc = "connecting", !.client = "created"]]
    /\ UNCHANGED searchFrame

TextSearch ==
    \E query \in {"w1", "w2"}, limit \in {1, 10}, filter \in Filters :
        SearchCall([IdleSearchCall EXCEPT !.fn = "text", !.query = query,
                       !.path = "content", !.limit = limit,
                       !.filter = filter])

VectorSearch ==
    \E queryVector \in {<<1, 0>>, <<0, 1>>}, k \in {1, 5}, filter \in Filters :
        SearchCall([IdleSearchCall EXCEPT !.fn = "vector",
                       !.queryVector = queryVector, !.k = k,
                       !.filter = filter])

\* await client.connect(), outside the try: it connects, or it throws and the
\* call throws.
SearchConnect ==
    /\ search.call.pc = "connecting"
    /\ \/ search' = [search EXCEPT !.open = @ + 1,
                                   !.call.pc = "connected",
                                   !.call.client = "connected"]
       \/ search' = [search EXCEPT !.call.pc = "threw",
                                   !.call.error = "connect"]
    /\ UNCHANGED searchFrame

\* The try block: the pipeline is built and aggregate awaited; it answers or
\* throws, and either way the finally block is next.
SearchAggregate ==
    /\ search.call.pc = "connected"
    /\ \/ search' = [search EXCEPT
              !.call.pc = "finally",
              !.call.request = Pipeline(search.call),
              !.call.result = Aggregate(Pipeline(search.call), SearchDocs)]
       \/ search' = [search EXCEPT
              !.call.pc = "finally",
              !.call.request = Pipeline(search.call),
              !.call.failed = TRUE,
              !.call.error = "aggregate"]
    /\ UNCHANGED searchFrame

\* finally { await client.close() }: the connections open afterwards.
OpenUnlessFailed(open, failed) == IF failed THEN open ELSE open - 1

OpenAfterFinally(open, failed) == open - 1

\* The finally block, then the return of the hits or the rethrow.
SearchClose ==
    /\ search.call.pc = "finally"
    /\ search' = [search EXCEPT
           !.open = OpenAfterFinally(@, search.call.failed),
           !.call.client = "closed",
           !.call.pc = IF search.call.failed THEN "threw" ELSE "returned"]
    /\ UNCHANGED searchFrame

\* The caller resumes, with the hits or the exception.
SearchResume ==
    /\ search.call.pc \in {"returned", "threw"}
    /\ search' = [search EXCEPT !.call = IdleSearchCall]
    /\ UNCHANGED searchFrame

\* The environment changes a flag.
SetFlag ==
    /\ \E f \in FlagNames, v \in FlagValues :
          /\ search.flags[f] # v
          /\ search' = [search EXCEPT !.flags[f] = v]
    /\ UNCHANGED searchFrame

InitSearch ==
    /\ env = EnvNames
    /\ InitService
    /\ mainPc = "off"
    /\ rank = IdleRank
    /\ split = IdleSplit
    /\ index = IdleIndex
    /\ \E flags \in [FlagNames -> FlagValues] :
          search = [IdleSearch EXCEPT !.flags = flags]

NextSearch ==
    \/ TextSearch
    \/ VectorSearch
    \/ SearchConnect
    \/ SearchAggregate
    \/ SearchClose
    \/ SearchResume
    \/ SetFlag

SpecSearch == InitSearch /\ [][NextSearch]_vars

(***************************************************************************)
(* The splitter of loadAndSplitFile on one document of up to MaxPieces     *)
(* pieces.                                                                 *)
(***************************************************************************)
RECURSIVE PieceSeqs(_)
PieceSeqs(n) ==
    IF n = 0 THEN {<< >>}
    ELSE {Append(p, l) : p \in PieceSeqs(n - 1), l \in PieceLengths}

InitSplit ==
    /\ env = EnvNames
    /\ InitService
    /\ mainPc = "off"
    /\ rank = IdleRank
    /\ search = IdleSearch
    /\ index = IdleIndex
    /\ \E n \in 0..MaxPieces : \E pieces \in PieceSeqs(n) :
          split = [IdleSplit EXCEPT !.pieces = pieces]

\* loader.ts line 61: splitter.splitDocuments(allRawDocs).
SplitDocuments ==
    /\ ~split.done
    /\ split' = [split EXCEPT !.done = TRUE,
                              !.chunks = SplitDocument(split.pieces)]
    /\ UNCHANGED <<env, serviceVars, storeVars, ingest, call, nCalls, nInits,
                   mainPc, rank, search, index>>

NextSplit == SplitDocuments

SpecSplit == InitSplit /\ [][NextSplit]_vars

(***************************************************************************)
(* create_vector_indexes.ts: one run of createVectorIndexesFromDataset,    *)
(* awaited by main.                                                        *)
(***************************************************************************)
indexFrame ==
    <<env, serviceVars, storeVars, ingest, call, nCalls, nInits, mainPc, rank,
      search, split>>

InitIndex ==
    /\ env \in SUBSET EnvNames
    /\ InitService
    /\ mainPc = "off"
    /\ rank = IdleRank
    /\ search = IdleSearch
    /\ split = IdleSplit
    /\ \E listing \in Listings, atlas \in BOOLEAN,
          store \in {<< >>, <<StaleRecord>>} :
          index = [IdleIndex EXCEPT !.listing = listing, !.atlas = atlas,
                                    !.store = store]

\* Lines 70-92: the files are selected; without any the function returns;
\* a missing key or connection string throws; then connect is awaited, and
\* may throw.
IndexStart ==
    /\ index.pc = "idle"
    /\ LET files == SelectedFiles(index.listing)
       IN  IF files = << >>
           THEN index' = [index EXCEPT !.pc = "returned"]
           ELSE IF "MISTRAL_API_KEY" \notin env \/ "MONGODB_URI" \notin env
           THEN index' = [index EXCEPT !.pc = "threw", !.files = files]
           ELSE \/ index' = [index EXCEPT !.pc = "file", !.files = files,
                                          !.i = 1, !.open = index.open + 1]
                \/ index' = [index EXCEPT !.pc = "threw", !.files = files]
    /\ UNCHANGED indexFrame

\* Lines 99-127: the next file is read and parsed; a file without text is
\* skipped; otherwise its texts are embedded, and the provider may throw.
IndexRead ==
    /\ index.pc = "file"
    /\ index.i <= Len(index.files)
    /\ LET texts == NonEmptyTexts(index.files[index.i].rows)
       IN  IF texts = << >>
           THEN index' = [index EXCEPT !.i = index.i + 1]
           ELSE \/ \E vectors \in (IF ProviderHasEmbedDocuments
                                   THEN BatchResponses(texts)
                                   ELSE {EmbedSequentially(texts)}) :
                      index' = [index EXCEPT !.pc = "embedded",
                                    !.texts = texts, !.vectors = vectors]
                \/ index' = [index EXCEPT !.pc = "threw"]
    /\ UNCHANGED indexFrame

\* Lines 130-138: deleteMany({}) on the file's collection; a failure is
\* caught and only logged.
IndexClear ==
    /\ index.pc = "embedded"
    /\ LET collName == CollName(index.files[index.i].name)
       IN  \/ index' = [index EXCEPT
                          !.pc = "cleared",
                          !.store = SelectSeq(index.store,
                                        LAMBDA r : r.coll # collName)]
           \/ index' = [index EXCEPT !.pc = "cleared"]
    /\ UNCHANGED indexFrame

\* Lines 140-159: the records are inserted, which may throw; with Atlas
\* credentials the server-side index is requested next, without them the
\* loop goes on.
IndexInsert ==
    /\ index.pc = "cleared"
    /\ LET name == index.files[index.i].name
       IN  \/ index' = [index EXCEPT
                          !.pc = IF index.atlas THEN "atlas" ELSE "file",
                          !.i = IF index.atlas THEN index.i ELSE index.i + 1,
                          !.store = index.store \o
                              IndexDocs(index.texts, name, index.vectors),
                          !.inserted = Append(index.inserted, name)]
           \/ index' = [index EXCEPT !.pc = "threw"]
    /\ UNCHANGED indexFrame

\* Lines 147-156: createAtlasSearchIndexIfRequested catches its own failures
\* and answers true or false; the answer is not used.
IndexAtlas ==
    /\ index.pc = "atlas"
    /\ index' = [index EXCEPT !.pc = "file", !.i = index.i + 1]
    /\ UNCHANGED indexFrame

\* Lines 160-163: after the last file the connection is closed.
IndexClose ==
    /\ index.pc = "file"
    /\ index.i > Len(index.files)
    /\ index' = [index EXCEPT !.pc = "returned", !.open = index.open - 1]
    /\ UNCHANGED indexFrame

\* create_vector_indexes.ts lines 6-14: main resumes, with "Done." or with
\* the exception, which sets the exit code.
IndexMain ==
    /\ index.pc \in {"returned", "threw"}
    /\ index' = [index EXCEPT
                   !.pc = "done",
                   !.exitCode = IF index.pc = "threw" THEN 1 ELSE 0]
    /\ UNCHANGED indexFrame

NextIndex ==
    \/ IndexStart
    \/ IndexRead
    \/ IndexClear
    \/ IndexInsert
    \/ IndexAtlas
    \/ IndexClose
    \/ IndexMain

SpecIndex == InitIndex /\ [][NextIndex]_vars

(***************************************************************************)
(* Properties.                                                             *)
(***************************************************************************)
\* The last k elements of seq (all of it when it has fewer).
Suffix(seq, k) == SubSeq(seq, Len(seq) - Min(k, Len(seq)) + 1, Len(seq))

\* One labelled line per turn, in the order of the turns.
LabelledLines(turns) ==
    [i \in 1..Len(turns) |->
        (IF turns[i].role = "user" THEN "User: " ELSE "Assistant: ")
            \o turns[i].content]

NoQueryInFlight == \A s \in Slots : call[s].pc # "invoked"

\* C1: with maxMemoryTurns >= 1, whenever no query is in flight (every call
\* has returned) the memory holds at most 2*maxMemoryTurns turns, and they are
\* the most recently appended turns in append order.
C1_MemoryBounded ==
    (maxMemoryTurns >= 1 /\ NoQueryInFlight) =>
        /\ Len(memory) <= 2 * maxMemoryTurns
        /\ memory = Suffix(appended, 2 * maxMemoryTurns)

\* C1 witness: a call has returned after the oldest turns were dropped.
C1_Witness ==
    /\ maxMemoryTurns >= 1
    /\ Quiet
    /\ Len(appended) > 2 * maxMemoryTurns
    /\ Len(memory) = 2 * maxMemoryTurns

\* C2: once 2*maxMemoryTurns + 2 turns have been appended to an empty memory,
\* the rendered history is exactly the most recent 2*maxMemoryTurns turns,
\* oldest first, one labelled line per turn.
C2_RenderMostRecent ==
    (Quiet /\ Len(appended) = 2 * maxMemoryTurns + 2) =>
        BuildConversationHistory(memory, maxMemoryTurns)
            = Join(LabelledLines(Suffix(appended, 2 * maxMemoryTurns)), "\n")

\* C3: for every n >= 0, setMaxMemoryTurns(n) replaces a memory of more than
\* 2*n turns by exactly its last 2*n turns and leaves a shorter one unchanged.
C3_SetMaxTruncates ==
    [][\A n \in 0..MaxTurns :
          (Quiet /\ SetMaxMemoryTurns(n)) =>
              /\ Len(memory') <= 2 * n
              /\ memory' = Suffix(memory, 2 * n)]_vars

\* C4: a query made while no retriever is installed returns the fixed
\* message in its first step, without raising, changes neither the memory nor
\* the chain, and calls no embedding, database or generation service.
C4_NotInitialized ==
    [][\A s \in Slots :
          (~retriever.installed /\ call[s].pc = "idle" /\ call'[s].pc # "idle")
          => /\ call'[s].pc = "returned"
             /\ call'[s].result = NotInitializedMsg
             /\ ~call'[s].threw
             /\ call'[s].effects = {}
             /\ memory' = memory
             /\ chain' = chain
             /\ collection' = collection]_vars

\* C4 witness: a query has returned the fixed message.
C4_Witness ==
    /\ ~retriever.installed
    /\ call[1].pc = "returned"
    /\ call[1].result = NotInitializedMsg

\* C6: when the chain failed during query(q), then as query returns the last
\* turn of the memory is the user turn q, and it is the last turn appended.
C6_FailureKeepsQuestion ==
    \A s \in Slots :
        (call[s].pc = "returned" /\ call[s].fault # None) =>
            /\ memory # << >>
            /\ memory[Len(memory)] = Turn("user", call[s].question)
            /\ appended # << >>
            /\ appended[Len(appended)] = Turn("user", call[s].question)

\* C6 witness: the generation failed after earlier turns were recorded.
C6_Witness ==
    /\ call[1].pc = "returned"
    /\ call[1].fault = "generate"
    /\ Len(memory) >= 3

\* C7 as stated: no step of query(q) made before the generation provider has
\* answered modifies the memory.
C7_MemoryUntouchedBeforeAnswer ==
    [][\A s \in Slots : call'[s].pc = "invoked" => memory' = memory]_vars

\* C7 amended: query(q) appends the user turn q before it invokes the chain,
\* so the history rendered for q is the whole memory ending with "User: q";
\* from then until the provider has answered the query does not modify the
\* memory, and the only turn it appends afterwards is the assistant's answer.
C7_UserTurnFirst ==
    /\ [](\A s \in Slots : call[s].pc = "invoked" =>
            /\ memory # << >>
            /\ memory[Len(memory)] = Turn("user", call[s].question)
            /\ call[s].rendered =>
                   call[s].history = Join(LabelledLines(memory), "\n"))
    /\ [][\A s \in Slots :
            /\ (call[s].pc = "invoked" /\ call'[s].pc = "invoked")
                   => memory' = memory
            /\ (call[s].pc = "invoked" /\ memory' # memory)
                   => /\ call'[s].pc = "returned"
                      /\ call'[s].fault = None
                      /\ appended' = Append(appended,
                             Turn("assistant", call'[s].result))]_vars

\* C7 witness: a history has been rendered for a follow-up question.
C7_Witness ==
    /\ call[1].pc = "invoked"
    /\ call[1].rendered
    /\ Len(memory) >= 3

\* C9: once initializeVectorStore(docs) has returned, every record a
\* retrieval scans was built from docs, whatever the clearing step did.
C9_NoEarlierRecords ==
    \A s \in Slots :
        call[s].retrieved =>
            \A i \in 1..Len(call[s].scanned) :
                call[s].scanned[i].id[1] = retriever.batch


\* C5: when the generation provider throws, query returns the fixed error
\* message without raising, and main, resuming, is back at its prompt with
\* the service idle for the next question.
C5_GenerationFailureHandled ==
    /\ [](\A s \in Slots : call[s].fault = "generate" =>
            /\ call[s].pc = "returned"
            /\ call[s].result = ChainErrorMsg
            /\ ~call[s].threw)
    /\ [][(call[1].fault = "generate" /\ call'[1].fault # "generate") =>
            /\ mainPc' = "prompt"
            /\ call'[1].pc = "idle"]_vars

\* C5 witness: under main, a query has returned after the provider threw.
C5_Witness ==
    /\ mainPc = "query"
    /\ call[1].pc = "returned"
    /\ call[1].fault = "generate"
    /\ call[1].result = ChainErrorMsg

\* The chunk set a completed ingestion of docs would leave.
NewChunkSet(g) ==
    Inserts(g.docs,
            [i \in 1..Len(g.docs) |-> EmbedText(g.docs[i].pageContent)],
            g.batch)

\* C8: a scan made while a re-ingestion is in progress returns the complete
\* previous chunk set or the complete new one.
C8_ScanSeesCompleteSet ==
    [][\A s \in Slots :
          (/\ ~call[s].retrieved
           /\ call'[s].retrieved
           /\ ingest.pc \in {"connected", "cleared", "embedded"})
          => call'[s].scanned \in {ingest.previous, NewChunkSet(ingest)}]_vars

\* The cosine of q and e1 is at least (more than) that of q and e2, by
\* cross-multiplication of sign(dot) * dot^2 / (|q|^2 * |e|^2); a zero norm
\* scores 0.
Dot(a, b) == a[1] * b[1] + a[2] * b[2]
CosNum(q, e) ==
    IF Dot(q, q) = 0 \/ Dot(e, e) = 0 THEN 0
    ELSE (IF Dot(q, e) < 0 THEN -1 ELSE 1) * Dot(q, e) * Dot(q, e)
CosDen(q, e) ==
    IF Dot(q, q) = 0 \/ Dot(e, e) = 0 THEN 1 ELSE Dot(q, q) * Dot(e, e)
CosAtLeast(q, e1, e2) ==
    CosNum(q, e1) * CosDen(q, e2) >= CosNum(q, e2) * CosDen(q, e1)
CosAbove(q, e1, e2) == ~CosAtLeast(q, e2, e1)

\* C10: for n records with embeddings and topK = k >= 1 the retrieval returns
\* exactly min(k, n) of the records, in non-increasing cosine order, records
\* of equal score in stored order, and no omitted record scores strictly
\* higher than a returned one.
C10_TopKRanked ==
    (rank.done /\ \A j \in 1..Len(rank.rows) : HasEmbedding(rank.rows[j])) =>
        LET out == rank.out
            q == rank.qVec
            returned == {out[i].doc.id : i \in 1..Len(out)}
        IN  /\ ~rank.threw
            /\ Len(out) = Min(rank.topK, Len(rank.rows))
            /\ Len(Passages(out)) = Len(out)
            /\ \A i \in 1..Len(out) :
                  \E j \in 1..Len(rank.rows) : out[i].doc = rank.rows[j]
            /\ Cardinality(returned) = Len(out)
            /\ \A i, j \in 1..Len(out) :
                  i < j =>
                    /\ CosAtLeast(q, out[i].doc.embedding, out[j].doc.embedding)
                    /\ CosAtLeast(q, out[j].doc.embedding, out[i].doc.embedding)
                          => out[i].doc.id[2] < out[j].doc.id[2]
            /\ \A j \in 1..Len(rank.rows) :
                  rank.rows[j].id \notin returned =>
                      \A i \in 1..Len(out) :
                          ~CosAbove(q, rank.rows[j].embedding,
                                    out[i].doc.embedding)

\* C10 witness: more records than topK, with a tie among the returned ones
\* and a record of lower score left out.
C10_Witness ==
    /\ rank.done
    /\ Len(rank.rows) > rank.topK
    /\ Len(rank.out) >= 2
    /\ rank.out[1].score = rank.out[2].score
    /\ rank.out[1].score.val > 0
    /\ \E j \in 1..Len(rank.rows) :
          CosAbove(rank.qVec, rank.out[1].doc.embedding,
                   rank.rows[j].embedding)

\* C11: cosine returns 0 whenever the query vector or the stored vector has
\* zero norm, and no score it returns for two vectors of equal length is NaN
\* (no 0 / 0 is computed).
C11_ZeroNormScoresZero ==
    (rank.done /\ ~rank.threw) =>
        \A i \in 1..Len(rank.out) :
            /\ ~rank.out[i].score.nan
            /\ Len(rank.out[i].doc.embedding) = Len(rank.qVec)
            /\ (Dot(rank.qVec, rank.qVec) = 0
                    \/ Dot(rank.out[i].doc.embedding,
                           rank.out[i].doc.embedding) = 0)
                  => rank.out[i].score = Num(0)

\* C11 witness: an all-zero query vector was scored against several chunks,
\* and a chunk of zero norm was scored too.
C11_Witness ==
    /\ rank.done
    /\ rank.qVec = <<0, 0>>
    /\ Len(rank.out) >= 2
    /\ \E i \in 1..Len(rank.out) : rank.out[i].doc.embedding = <<0, 0>>
    /\ \E i \in 1..Len(rank.out) : rank.out[i].doc.embedding # <<0, 0>>

\* C12: in a collection that holds records with and without embedding, a
\* record without embedding is never among the passages returned, and its
\* presence does not make the retrieval of the others fail.
C12_MissingEmbeddingSkipped ==
    (/\ rank.done
     /\ \E j \in 1..Len(rank.rows) : ~HasEmbedding(rank.rows[j])
     /\ \E j \in 1..Len(rank.rows) : HasEmbedding(rank.rows[j])) =>
        /\ ~rank.threw
        /\ \A i \in 1..Len(rank.out) : HasEmbedding(rank.out[i].doc)

\* C18: no two passages returned by one retrieval have equal content.
C18_PassagesDeduplicated ==
    (rank.done /\ ~rank.threw) =>
        \A i, j \in 1..Len(rank.out) :
            i < j => Passages(rank.out)[i].pageContent
                        # Passages(rank.out)[j].pageContent

\* C13: when the embedding provider answers with a number of vectors other
\* than the number of texts, initializeVectorStore throws and inserts nothing;
\* no record is ever stored without its embedding.
C13_MiscountFailsIngestion ==
    /\ [](\A i \in 1..Len(collection) : HasEmbedding(collection[i]))
    /\ [][(/\ ingest.pc = "embedded"
           /\ Len(ingest.vectors) # Len(ingest.docs)
           /\ ingest'.pc # "embedded")
          => /\ ingest'.pc = "threw"
             /\ collection' = collection]_vars

\* C14: the i-th record an ingestion inserts has the content of the i-th
\* input text and the embedding computed for that text.
C14_InsertOrderIsInputOrder ==
    [][(ingest.pc = "embedded" /\ ingest'.pc = "returned") =>
          /\ Len(collection') = Len(collection) + Len(ingest.docs)
          /\ \A i \in 1..Len(ingest.docs) :
                LET r == collection'[Len(collection) + i]
                IN  /\ r.content = ingest.docs[i].pageContent
                    /\ HasEmbedding(r)
                    /\ r.embedding = EmbedText(ingest.docs[i].pageContent)]_vars

\* C15: a call of textSearch made while BM25_SEARCH_ENABLED is false, and a
\* call of vectorSearch made while VECTOR_SEARCH_ENABLED is false, throws at
\* once with no client created, no connection and no request; the flag is
\* read at each call, and a call whose own flag is true or unset goes on to
\* connect whatever the other flag is.
C15_DisabledFailsFast ==
    /\ [][(search.call.pc = "idle" /\ search'.call.pc # "idle") =>
            LET c == search'.call
                own == search.flags[IF c.fn = "text"
                                    THEN "BM25_SEARCH_ENABLED"
                                    ELSE "VECTOR_SEARCH_ENABLED"]
            IN  /\ own \in {"false", "False"} =>
                      /\ c.pc = "threw"
                      /\ c.client = "none"
                      /\ c.request = << >>
                      /\ search'.open = search.open
                /\ own \in {"", "true", "TRUE"} =>
                      /\ c.pc = "connecting"
                      /\ c.client = "created"]_vars
    /\ [](search.call.client = "none" =>
            /\ search.call.pc \in {"idle", "threw"}
            /\ search.call.request = << >>)

\* C15 witness: the second call, a textSearch, was refused while vector
\* search is enabled.
C15_Witness ==
    /\ search.started = 2
    /\ search.call.fn = "text"
    /\ search.call.pc = "threw"
    /\ search.call.client = "none"
    /\ search.flags["BM25_SEARCH_ENABLED"] = "False"
    /\ search.flags["VECTOR_SEARCH_ENABLED"] = "true"

\* C16: whenever no search call is in flight, or one has just returned or
\* thrown, no connection opened by a search call is open.
C16_ConnectionScopedToCall ==
    /\ search.open \in {0, 1}
    /\ search.call.pc \in {"idle", "returned", "threw"} => search.open = 0
    /\ search.call.client = "closed" => search.open = 0

\* C16 witness: a call whose aggregate failed has thrown with its
\* connection closed.
C16_Witness ==
    /\ search.call.pc = "threw"
    /\ search.call.failed
    /\ search.call.client = "closed"
    /\ search.open = 0

\* C17: the $search request is a compound of the match in must and an equals
\* on filter.path with filter.value in filter exactly when a filter is given,
\* and the bare match otherwise; every hit returned satisfies the match and
\* the filter.
C17_FilterIsConjoined ==
    LET c == search.call
        match == IF c.fn = "text"
                 THEN [text |-> [query |-> c.query, path |-> c.path]]
                 ELSE [knn |-> [path |-> "embedding",
                                vector |-> c.queryVector, k |-> c.k]]
    IN  /\ c.request # << >> =>
              LET stage == c.request[1].search
              IN  IF c.filter # << >>
                  THEN /\ DOMAIN stage = {"index", "compound"}
                       /\ stage.compound.must = <<match>>
                       /\ stage.compound.filter =
                              <<[equals |-> [path |-> c.filter[1].path,
                                             value |-> c.filter[1].value]]>>
                  ELSE /\ DOMAIN stage = {"index"} \cup DOMAIN match
                       /\ \A key \in DOMAIN match : stage[key] = match[key]
        /\ c.pc = "returned" =>
              \A i \in 1..Len(c.result) :
                  \E j \in 1..Len(SearchDocs) :
                      /\ SearchDocs[j].content = c.result[i].content
                      /\ c.fn = "text" =>
                            c.query \in IndexedWords(SearchDocs[j].content)
                      /\ c.filter # << >> =>
                            SearchDocs[j].metadata.source = c.filter[1].value

\* C17 witness: a filtered text search returned a hit and left out a
\* document that matches the text but not the filter.
C17_Witness ==
    /\ search.call.pc = "returned"
    /\ search.call.fn = "text"
    /\ search.call.filter # << >>
    /\ Len(search.call.result) >= 1
    /\ \E j \in 1..Len(SearchDocs) :
          /\ search.call.query \in IndexedWords(SearchDocs[j].content)
          /\ SearchDocs[j].metadata.source # search.call.filter[1].value

\* C19: when the retrieval of query(q) failed (embedding the question,
\* scanning the collection or scoring threw), query returns the fixed message
\* without raising, and the generation provider was not invoked for q.
C19_RetrievalFailureDegrades ==
    \A s \in Slots :
        call[s].fault \in {"embed", "find", "cosine"} =>
            /\ call[s].pc = "returned"
            /\ call[s].result = ChainErrorMsg
            /\ ~call[s].threw
            /\ "generate" \notin call[s].effects

\* C19 witness: the scan of the collection threw during a follow-up query.
C19_Witness ==
    /\ call[1].pc = "returned"
    /\ call[1].fault = "find"
    /\ call[1].result = ChainErrorMsg
    /\ Len(memory) >= 3

\* C20: once "exit" was entered, no question is passed to query any more,
\* and nothing that keeps the process alive is left: the readline interface
\* is closed and no database connection of initializeVectorStore is open.
C20_ExitReleasesEverything ==
    /\ [][mainPc = "closed" =>
            /\ nCalls' = nCalls
            /\ \A s \in Slots : call'[s].pc = "idle"]_vars
    /\ [](mainPc = "closed" => openClients = 0)

\* C21: main is at its prompt or in a query only with the three variables
\* set and after initializeVectorStore has completed; it enters the loop only
\* from a returned initializeVectorStore, and once startup has failed no
\* query is ever made.
C21_LoopOnlyAfterStartup ==
    /\ [](mainPc \in {"prompt", "query", "closed"} =>
            /\ EnvNames \subseteq env
            /\ retriever.installed)
    /\ [](nCalls > 0 => retriever.installed)
    /\ [](mainPc = "aborted" => nCalls = 0)
    /\ [][(mainPc \notin {"prompt", "query"} /\ mainPc' = "prompt") =>
            ingest.pc = "returned"]_vars
    /\ [][mainPc = "aborted" => mainPc' = "aborted"]_vars

\* C21 witness: startup stopped because the ingestion threw after it had
\* connected.
C21_Witness ==
    /\ mainPc = "aborted"
    /\ EnvNames \subseteq env
    /\ openClients = 1
    /\ ~retriever.installed

\* C23: initializeVectorStore([]) completes once the texts are embedded,
\* inserts nothing and installs the retriever; when it has returned the
\* collection is empty; and a query over an empty collection retrieves no
\* passage, has an empty context, and goes on to the generation.
C23_EmptyIngestionIsNotAnError ==
    /\ [][(/\ ingest.pc = "embedded"
           /\ ingest.docs = << >>
           /\ ingest'.pc # "embedded")
          => /\ ingest'.pc = "returned"
             /\ collection' = collection
             /\ retriever'.installed]_vars
    /\ []((ingest.pc = "returned" /\ ingest.docs = << >>) =>
            collection = << >>)
    /\ [][\A s \in Slots :
            (call[s].pc = "invoked" /\ collection = << >>) =>
                call'[s].fault # "cosine"]_vars
    /\ [](\A s \in Slots :
            (call[s].retrieved /\ call[s].scanned = << >>) =>
                /\ call[s].context = ""
                /\ call[s].fault \in {None, "generate"})

\* C25: when initializeVectorStore throws after its connect, on a service
\* that was already initialized, the collection holds the chunk set the call
\* found.
C25_FailedIngestionKeepsCorpus ==
    [][(/\ retriever.installed
        /\ ingest.pc \in {"cleared", "embedded"}
        /\ ingest'.pc = "threw")
       => collection' = ingest.previous]_vars

\* C26: each assistant turn is appended right after the user turn of its own
\* query, also when two queries overlap.
C26_TurnsNotInterleaved ==
    [][\A s \in Slots :
          (/\ call[s].pc = "invoked"
           /\ call'[s].pc = "returned"
           /\ call'[s].fault = None)
          => /\ appended' = Append(appended, Turn("assistant", call'[s].result))
             /\ appended[Len(appended)] = Turn("user", call[s].question)
             /\ \A t \in Slots \ {s} : ~(call[t].pc = "invoked")]_vars

\* Complete (user, assistant) pairs: even length, roles alternating from a
\* user turn.
PairsComplete(turns) ==
    /\ Len(turns) % 2 = 0
    /\ \A i \in 1..Len(turns) :
          turns[i].role = (IF i % 2 = 1 THEN "user" ELSE "assistant")

\* C28 as stated: in single-threaded use, whenever no query is in flight the
\* memory consists of complete (user, assistant) pairs.
C28_CompletePairs ==
    NoQueryInFlight => PairsComplete(memory)

\* C28 amended: whenever no query is in flight, no two assistant turns are
\* adjacent in the memory (each one past the first entry follows a user
\* turn), and the memory consists of complete pairs when the turns appended
\* since it was last cleared or re-limited are complete pairs, that is, when
\* it then held complete pairs and no query has failed since.
C28_PairsUnlessFailed ==
    NoQueryInFlight =>
        /\ \A i \in 2..Len(memory) :
              memory[i].role = "assistant" => memory[i - 1].role = "user"
        /\ PairsComplete(appended) => PairsComplete(memory)

\* C28 witness: only successful queries since the last clear, and the
\* oldest pair has been dropped.
C28_Witness ==
    /\ Quiet
    /\ PairsComplete(appended)
    /\ Len(memory) >= 2
    /\ Len(appended) > Len(memory)

\* C27: the chain is constructed at most once, by a query that passes the
\* initialization check, and kept afterwards; the installed retriever is
\* always that of the initializeVectorStore call that returned last, and
\* every retrieval goes through it, also when the chain was constructed
\* under an earlier retriever.
C27_ChainBuiltOnceRetrieverCurrent ==
    /\ [](Len(chainLog) <= 1 /\ (chain <=> Len(chainLog) = 1))
    /\ [][chain => (chain' /\ chainLog' = chainLog)]_vars
    /\ [][chainLog' # chainLog =>
            /\ retriever.installed
            /\ \E s \in Slots : call[s].pc = "idle" /\ call'[s].pc = "invoked"]_vars
    /\ [][/\ retriever' # retriever =>
                (ingest'.pc = "returned" /\ ingest.pc # "returned")
          /\ (ingest'.pc = "returned" /\ ingest.pc # "returned") =>
                (retriever'.installed /\ retriever'.batch = ingest.batch)]_vars
    /\ [][\A s \in Slots :
            (~call[s].retrieved /\ call'[s].retrieved) =>
                call'[s].via = retriever.batch]_vars

\* C27 witness: a retrieval went through the retriever of the second
\* ingestion, the chain having been constructed under the first.
C27_Witness ==
    /\ call[1].retrieved
    /\ call[1].via = 2
    /\ chainLog = <<1>>


\* The characters of a chunk, and the characters two consecutive chunks of
\* a document share: the pieces that are in both.
ChunkLength(lens, c) == TotalLength(lens, c.from, c.to)
SharedLength(lens, c, d) == TotalLength(lens, d.from, c.to)

\* C22: every chunk of a document has at most chunkSize characters, and two
\* consecutive chunks of the document share exactly chunkOverlap characters.
C22_ChunksBoundedOverlapExact ==
    split.done =>
        /\ \A k \in DOMAIN split.chunks :
              ChunkLength(split.pieces, split.chunks[k]) <= ChunkSize
        /\ \A k \in 1..(Len(split.chunks) - 1) :
              SharedLength(split.pieces, split.chunks[k],
                           split.chunks[k + 1]) = ChunkOverlap

\* The records an insertMany step added to the store.
InsertedBy(before, after) == SubSeq(after, Len(before) + 1, Len(after))

\* The zero-based position of row j of a file among its non-empty rows.
PositionAmongNonEmpty(rows, j) ==
    Cardinality({h \in 1..(j - 1) : rows[h] # ""})

\* C24: the records inserted for a file are one per non-empty row of the
\* file, in the order of the rows; each carries the file's name as
\* metadata.source and, as metadata.row, the zero-based position of its row
\* among the non-empty rows of the file, so the numbers run 0, 1, 2, ...
\* without gaps and start again at 0 for every file.
C24_RowsAreSourcePositions ==
    [][(index.pc = "cleared" /\ index'.pc \in {"atlas", "file"}) =>
          LET file == index.files[index.i]
              new == InsertedBy(index.store, index'.store)
          IN  /\ Len(new) = Cardinality({j \in DOMAIN file.rows :
                                            file.rows[j] # ""})
              /\ \A k \in DOMAIN new :
                    /\ new[k].metadata.source = file.name
                    /\ new[k].metadata.row = k - 1
                    /\ \E j \in DOMAIN file.rows :
                          /\ file.rows[j] # ""
                          /\ file.rows[j] = new[k].content
                          /\ PositionAmongNonEmpty(file.rows, j)
                                = new[k].metadata.row]_vars

\* C24 witness: the file whose first row is blank was inserted, and the
\* record of its third row carries row number 1.
C24_Witness ==
    /\ FileName(<<"b">>, "csv") \in {index.inserted[k] :
                                       k \in DOMAIN index.inserted}
    /\ \E k \in DOMAIN index.store :
          /\ index.store[k].content = "r2"
          /\ index.store[k].metadata.source = FileName(<<"b">>, "csv")
          /\ index.store[k].metadata.row = 1

\* C29: when createVectorIndexesFromDataset has returned or thrown, no
\* connection it opened is still open.
C29_ConnectionClosedOnExit ==
    index.pc \in {"returned", "threw", "done"} => index.open = 0

\* C30: the files whose records were inserted in this run have pairwise
\* distinct collections, the records of each of them are still stored, and
\* no collection holds records of two of them.
C30_FilesKeepTheirOwnCollections ==
    LET done == {index.inserted[k] : k \in DOMAIN index.inserted}
        stored == {index.store[k] : k \in DOMAIN index.store}
    IN  /\ \A a, b \in DOMAIN index.inserted :
              a # b => CollName(index.inserted[a]) # CollName(index.inserted[b])
        /\ \A f \in done : \E r \in stored : r.metadata.source = f
        /\ \A r, q \in stored :
              (r.coll = q.coll /\ r.metadata.source \in done
                               /\ q.metadata.source \in done)
                  => r.metadata.source = q.metadata.source


=============================================================================
